---- MODULE Spec2Model ----
(***************************************************************************)
(* A model of the async_timers hierarchical timing wheel (src/lib.rs) and  *)
(* of its timer storage (src/slab.rs).                                     *)
(*                                                                         *)
(* The wheel is one record, `wheel`, holding the fields of TimeWheel.  The *)
(* operations init_timer, tick, poll and drop are the actions.  Instants   *)
(* are integers counting milliseconds; a duration handed to init_timer is  *)
(* its length in ms, kept as a multiple of 2^64 plus a rest, so that the   *)
(* cast to u64 in init_timer is the cast of the code.  A panic of the code *)
(* (an unwrap of None, unreachable!(), the slab's "invalid key") is        *)
(* recorded in `fault`; the program does not continue after it.            *)
(*                                                                         *)
(* History variables (not program state): `regs` records every successful  *)
(* registration, `owner` the registration that last took each slot, `ret`  *)
(* the last call and its result, `count` the notifications each waker      *)
(* received, `ticks` the number of tick() calls made.                      *)
(*                                                                         *)
(* Specifications: Spec (all four operations), SpecPolled (every           *)
(* registration uses the first waker), SpecRegister (registrations alone,  *)
(* more durations and cursor positions), SpecWrapped (the same with        *)
(* durations of 2^64 ms and more), SpecDriven (registrations and           *)
(* ticks) and SpecPeriodic (a driver that ticks for ever at a period below *)
(* MS_TICK).                                                               *)
(***************************************************************************)
EXTENDS Integers, Sequences, FiniteSets

\* ------------------------------------------------------------ constants
MS_TICK == 10
MS_BUCKETS == 10
S_BUCKETS == 60
H_BUCKETS == 24
MAX_DURATION_HOURS == 24
MS_PER_SECOND == 1000
MS_PER_HOUR == 3600000

\* ------------------------------------------------------------ bounds
\* registrations made in one behaviour
MaxRegs == 2
\* calls of tick() made in one behaviour
MaxTicks == 3
\* distinct continuations (wakers) the callers hold
NumWakers == 2

\* multiples of 2^64 ms added to a requested duration
MaxWraps == 2

Wakers == 1..NumWakers
NoWaker == 0

\* durations handed to init_timer, in ms: both ends of the tick level, the
\* first coarse-level value, one second, the first coarsest-level value, and
\* the limit of 24 h
Durations == {0, 95, 100, 1000, 60000, 86400000}

\* time between two calls of tick(), in ms: less than a tick, one tick, and a
\* batch of eleven that runs over a whole frame of the tick level
Gaps == {5, 10, 110}

\* The wheel is built WarmUp ms before instant 0 and driven by one tick() call
\* at instant 0 with nothing registered: 0 leaves the cursors at (0, 0, 0),
\* 5990 ms (599 steps) at (9, 59, 0), one step before all three levels wrap.
WarmUps == {0, 5990}

VARIABLES wheel, regs, owner, ret, fault, count, ticks

vars == <<wheel, regs, owner, ret, fault, count, ticks>>

Min(a, b) == IF a < b THEN a ELSE b

\* ------------------------------------------------------------ slab::Slab
\* An entry of the slab is Occupied(Timer) or Vacant(next free key).
Vacant(n) == [tag |-> "Vacant", waker |-> NoWaker, next |-> n]
Waiting(w) == [tag |-> "Waiting", waker |-> w, next |-> 0]
Done == [tag |-> "Done", waker |-> NoWaker, next |-> 0]
Cancelled == [tag |-> "Cancelled", waker |-> NoWaker, next |-> 0]

\* Slab::default(): no entries, next key 0.  Keys are 0-based, entries[k+1].
TimerStorage_default == [entries |-> <<>>, next |-> 0]

\* Slab::contains / get_mut(..).is_some()
slab_contains(s, key) ==
    /\ key < Len(s.entries)
    /\ s.entries[key + 1].tag # "Vacant"

\* the Timer stored under an occupied key
slab_get(s, key) == s.entries[key + 1]

\* *slot = value, through the reference get_mut returned
slab_set(s, key, val) == [s EXCEPT !.entries[key + 1] = val]

\* An insert that does not advance the next key when it appends an entry.
slab_insert_keeps_next(s, val) ==
    LET key == s.next IN
    IF key = Len(s.entries)
    THEN [slab |-> [entries |-> Append(s.entries, val), next |-> key],
          key |-> key]
    ELSE [slab |-> [entries |-> [s.entries EXCEPT ![key + 1] = val],
                    next |-> s.entries[key + 1].next],
          key |-> key]

\* Slab::insert: the head of the free list, or a new entry at the end
slab_insert(s, val) ==
    LET key == s.next IN
    IF key = Len(s.entries)
    THEN [slab |-> [entries |-> Append(s.entries, val), next |-> key + 1],
          key |-> key]
    ELSE [slab |-> [entries |-> [s.entries EXCEPT ![key + 1] = val],
                    next |-> s.entries[key + 1].next],
          key |-> key]

\* Slab::remove on an occupied key: the entry joins the head of the free list
slab_remove(s, key) ==
    [entries |-> [s.entries EXCEPT ![key + 1] = Vacant(s.next)], next |-> key]

\* ------------------------------------------------------------ TimerStorage
storage_create(s, waker) == slab_insert(s, Waiting(waker))

\* A drop that leaves a Waiting timer Waiting (the cancellation is lost).
storage_drop_keeps_waiting(s, id) ==
    IF ~slab_contains(s, id)
    THEN [storage |-> s, fault |-> "unwrap_none"]
    ELSE LET timer == slab_get(s, id) IN
         CASE timer.tag = "Done" ->
                [storage |-> slab_remove(s, id), fault |-> "none"]
           [] OTHER ->
                [storage |-> s, fault |-> "none"]

\* A drop whose Cancelled arm falls through to the removal.
storage_drop_reclaims_cancelled(s, id) ==
    IF ~slab_contains(s, id)
    THEN [storage |-> s, fault |-> "unwrap_none"]
    ELSE LET timer == slab_get(s, id) IN
         CASE timer.tag = "Waiting" ->
                [storage |-> slab_set(s, id, Cancelled), fault |-> "none"]
           [] OTHER ->
                [storage |-> slab_remove(s, id), fault |-> "none"]

\* TimerStorage::drop: [storage, fault]
storage_drop(s, id) ==
    IF ~slab_contains(s, id)
    THEN [storage |-> s, fault |-> "unwrap_none"]
    ELSE LET timer == slab_get(s, id) IN
         CASE timer.tag = "Waiting" ->
                [storage |-> slab_set(s, id, Cancelled), fault |-> "none"]
           [] timer.tag = "Done" ->
                [storage |-> slab_remove(s, id), fault |-> "none"]
           [] OTHER ->
                [storage |-> s, fault |-> "none"]

\* A poll that reports Ready without removing the timer from the slab.
storage_poll_keeps_slot(s, id, waker) ==
    IF ~slab_contains(s, id)
    THEN [storage |-> s, poll |-> "Panic", fault |-> "unwrap_none"]
    ELSE LET timer == slab_get(s, id) IN
         IF timer.tag = "Waiting"
         THEN [storage |-> IF timer.waker # waker
                           THEN slab_set(s, id, Waiting(waker))
                           ELSE s,
               poll |-> "Pending", fault |-> "none"]
         ELSE [storage |-> s, poll |-> "Ready", fault |-> "none"]

\* A poll that never replaces the stored waker.
storage_poll_keeps_waker(s, id, waker) ==
    IF ~slab_contains(s, id)
    THEN [storage |-> s, poll |-> "Panic", fault |-> "unwrap_none"]
    ELSE LET timer == slab_get(s, id) IN
         IF timer.tag = "Waiting"
         THEN [storage |-> s, poll |-> "Pending", fault |-> "none"]
         ELSE [storage |-> slab_remove(s, id), poll |-> "Ready",
               fault |-> "none"]

\* TimerStorage::poll: [storage, poll ("Pending" | "Ready"), fault]
storage_poll(s, id, waker) ==
    IF ~slab_contains(s, id)
    THEN [storage |-> s, poll |-> "Panic", fault |-> "unwrap_none"]
    ELSE LET timer == slab_get(s, id) IN
         IF timer.tag = "Waiting"
         THEN [storage |-> IF timer.waker # waker
                           THEN slab_set(s, id, Waiting(waker))
                           ELSE s,
               poll |-> "Pending", fault |-> "none"]
         ELSE [storage |-> slab_remove(s, id), poll |-> "Ready",
               fault |-> "none"]

\* A wake that marks a Waiting timer Done without notifying its waker.
storage_wake_silent(s, id) ==
    IF ~slab_contains(s, id)
    THEN [storage |-> s, woken |-> NoWaker, fault |-> "unwrap_none"]
    ELSE LET timer == slab_get(s, id) IN
         CASE timer.tag = "Waiting" ->
                [storage |-> slab_set(s, id, Done), woken |-> NoWaker,
                 fault |-> "none"]
           [] timer.tag = "Done" ->
                [storage |-> s, woken |-> NoWaker, fault |-> "unreachable"]
           [] OTHER ->
                [storage |-> slab_remove(s, id), woken |-> NoWaker,
                 fault |-> "none"]

\* TimerStorage::wake: [storage, woken (the waker notified, or NoWaker), fault]
storage_wake(s, id) ==
    IF ~slab_contains(s, id)
    THEN [storage |-> s, woken |-> NoWaker, fault |-> "unwrap_none"]
    ELSE LET timer == slab_get(s, id) IN
         CASE timer.tag = "Waiting" ->
                [storage |-> slab_set(s, id, Done), woken |-> timer.waker,
                 fault |-> "none"]
           [] timer.tag = "Done" ->
                [storage |-> s, woken |-> NoWaker, fault |-> "unreachable"]
           [] OTHER ->
                [storage |-> slab_remove(s, id), woken |-> NoWaker,
                 fault |-> "none"]

\* ------------------------------------------------------------ Bitset
Bitset_set(bits, idx) == bits \cup {idx}
Bitset_clear(bits, idx) == bits \ {idx}
Bitset_is_set(bits, idx) == idx \in bits

\* ------------------------------------------------------------ TimeWheel
\* TimeWheel::new() at instant `now`
TimeWheel_new(now) ==
    [storage |-> TimerStorage_default,
     ms_level |-> [i \in 0..(MS_BUCKETS - 1) |-> <<>>],
     s_level |-> [i \in 0..(S_BUCKETS - 1) |-> <<>>],
     h_level |-> [i \in 0..(H_BUCKETS - 1) |-> <<>>],
     ms_occupied |-> {},
     s_occupied |-> {},
     h_occupied |-> {},
     last_tick |-> now,
     current_ms_idx |-> 0,
     current_s_idx |-> 0,
     current_h_idx |-> 0]

\* A tick-level placement one bucket too far.
compute_ms_bucket_off_by_one(w, ms) ==
    LET bucket_offset == ms \div MS_TICK + 1 IN
    (w.current_ms_idx + Min(bucket_offset, MS_BUCKETS - 1)) % MS_BUCKETS

compute_ms_bucket_from_ms(w, ms) ==
    LET bucket_offset == ms \div MS_TICK IN
    (w.current_ms_idx + Min(bucket_offset, MS_BUCKETS - 1)) % MS_BUCKETS

\* A coarse placement that counts the offset in ticks instead of seconds.
compute_s_bucket_in_ticks(w, ms) ==
    LET secs == ms \div MS_TICK IN
    (w.current_s_idx + Min(secs, S_BUCKETS - 1)) % S_BUCKETS

compute_s_bucket_from_ms(w, ms) ==
    LET secs == ms \div MS_PER_SECOND IN
    (w.current_s_idx + Min(secs, S_BUCKETS - 1)) % S_BUCKETS

compute_h_bucket_from_ms(w, ms) ==
    LET hours == ms \div MS_PER_HOUR IN
    (w.current_h_idx + Min(hours, H_BUCKETS - 1)) % H_BUCKETS

\* A Duration is kept by its length in ms, the u128 that as_millis()
\* returns, in two parts: wraps * 2^64 + ms with ms < 2^64.
Duration_from_millis(ms) == [wraps |-> 0, ms |-> ms]

\* `duration.as_millis() as u64`: the cast of a u128 to u64 keeps the value
\* modulo 2^64, that is the low part, and discards the multiples of 2^64.
as_millis_u64(duration) == duration.ms

\* TimeWheel::init_timer: [wheel, ok, id]; ok = FALSE is Err(DurationTooLong)
init_timer(w, duration, waker) ==
  LET total_ms == as_millis_u64(duration) IN
    IF total_ms >= MAX_DURATION_HOURS * MS_PER_HOUR
    THEN [wheel |-> w, ok |-> FALSE, id |-> 0]
    ELSE
      LET created == storage_create(w.storage, waker)
          timer_id == created.key
          w1 == [w EXCEPT !.storage = created.slab]
          ms_threshold == MS_BUCKETS * MS_TICK
          s_threshold == S_BUCKETS * MS_PER_SECOND
          placed ==
            IF total_ms < ms_threshold
            THEN LET idx == compute_ms_bucket_from_ms(w1, total_ms) IN
                 [w1 EXCEPT !.ms_occupied = Bitset_set(@, idx),
                            !.ms_level[idx] = Append(@, timer_id)]
            ELSE IF total_ms < s_threshold
            THEN LET idx == compute_s_bucket_from_ms(w1, total_ms) IN
                 [w1 EXCEPT !.s_occupied = Bitset_set(@, idx),
                            !.s_level[idx] = Append(@, timer_id)]
            ELSE LET idx == compute_h_bucket_from_ms(w1, total_ms) IN
                 [w1 EXCEPT !.h_occupied = Bitset_set(@, idx),
                            !.h_level[idx] = Append(@, timer_id)]
      IN [wheel |-> placed, ok |-> TRUE, id |-> timer_id]

\* The loop `for timer_id in bucket.drain(..) { storage.wake(timer_id) }` of
\* process_single_tick from position i on.  acc = [storage, log, fault]; the
\* log gets one entry [id, waker, step] per waker notified.  A panic of wake
\* ends the loop.
RECURSIVE wake_all(_, _, _, _)
wake_all(acc, ids, i, step) ==
    IF i > Len(ids) \/ acc.fault # "none"
    THEN acc
    ELSE LET r == storage_wake(acc.storage, ids[i]) IN
         wake_all([storage |-> r.storage,
                   log |-> IF r.woken # NoWaker
                           THEN Append(acc.log,
                                       [id |-> ids[i], waker |-> r.woken,
                                        step |-> step])
                           ELSE acc.log,
                   fault |-> r.fault],
                  ids, i + 1, step)

\* A coarse cascade that puts the moved entries in front of the entries the
\* tick bucket already holds.
cascade_from_seconds_prepends(w) ==
    IF ~Bitset_is_set(w.s_occupied, w.current_s_idx)
    THEN w
    ELSE LET bucket == w.s_level[w.current_s_idx] IN
         [w EXCEPT !.s_occupied = Bitset_clear(@, w.current_s_idx),
                   !.s_level[w.current_s_idx] = <<>>,
                   !.ms_occupied = Bitset_set(@, w.current_ms_idx),
                   !.ms_level[w.current_ms_idx] = bucket \o @]

cascade_from_seconds(w) ==
    IF ~Bitset_is_set(w.s_occupied, w.current_s_idx)
    THEN w
    ELSE LET bucket == w.s_level[w.current_s_idx] IN
         [w EXCEPT !.s_occupied = Bitset_clear(@, w.current_s_idx),
                   !.s_level[w.current_s_idx] = <<>>,
                   !.ms_occupied = Bitset_set(@, w.current_ms_idx),
                   !.ms_level[w.current_ms_idx] = @ \o bucket]

\* A coarsest cascade that takes the bucket and forgets to append it.
cascade_from_hours_loses_bucket(w) ==
    IF ~Bitset_is_set(w.h_occupied, w.current_h_idx)
    THEN w
    ELSE [w EXCEPT !.h_occupied = Bitset_clear(@, w.current_h_idx),
                   !.h_level[w.current_h_idx] = <<>>,
                   !.s_occupied = Bitset_set(@, w.current_s_idx)]

cascade_from_hours(w) ==
    IF ~Bitset_is_set(w.h_occupied, w.current_h_idx)
    THEN w
    ELSE LET bucket == w.h_level[w.current_h_idx] IN
         [w EXCEPT !.h_occupied = Bitset_clear(@, w.current_h_idx),
                   !.h_level[w.current_h_idx] = <<>>,
                   !.s_occupied = Bitset_set(@, w.current_s_idx),
                   !.s_level[w.current_s_idx] = @ \o bucket]

\* the cursor part of process_single_tick (lines 141-151)
advance_cursors(w) ==
    LET w1 == [w EXCEPT !.current_ms_idx = (@ + 1) % MS_BUCKETS] IN
    IF w1.current_ms_idx # 0
    THEN w1
    ELSE LET w2 == cascade_from_seconds(w1)
             w3 == [w2 EXCEPT !.current_s_idx = (@ + 1) % S_BUCKETS]
         IN IF w3.current_s_idx # 0
            THEN w3
            ELSE LET w4 == cascade_from_hours(w3) IN
                 [w4 EXCEPT !.current_h_idx = (@ + 1) % H_BUCKETS]

\* A step that drains the tick bucket but leaves its occupancy bit set.
process_single_tick_keeps_bit(t, step) ==
    LET w == t.w
        cur == w.current_ms_idx
    IN
    IF Bitset_is_set(w.ms_occupied, cur)
    THEN LET acc == wake_all([storage |-> w.storage, log |-> t.log,
                              fault |-> "none"],
                             w.ms_level[cur], 1, step)
             w1 == [w EXCEPT !.ms_level[cur] = <<>>,
                             !.storage = acc.storage]
         IN IF acc.fault # "none"
            THEN [w |-> w1, log |-> acc.log, fault |-> acc.fault,
                  done |-> t.done]
            ELSE [w |-> advance_cursors(w1), log |-> acc.log,
                  fault |-> "none", done |-> t.done + 1]
    ELSE [w |-> advance_cursors(w), log |-> t.log, fault |-> "none",
          done |-> t.done + 1]

\* TimeWheel::process_single_tick, as the step-th step of one tick() call.
\* t = [w, log, fault, done]; done counts the steps that ran to their end.
\* A panic inside the drain unwinds out of tick(): the Drain iterator empties
\* the bucket when dropped, the cursors are not advanced.
process_single_tick(t, step) ==
    LET w == t.w
        cur == w.current_ms_idx
    IN
    IF Bitset_is_set(w.ms_occupied, cur)
    THEN LET acc == wake_all([storage |-> w.storage, log |-> t.log,
                              fault |-> "none"],
                             w.ms_level[cur], 1, step)
             w1 == [w EXCEPT !.ms_occupied = Bitset_clear(@, cur),
                             !.ms_level[cur] = <<>>,
                             !.storage = acc.storage]
         IN IF acc.fault # "none"
            THEN [w |-> w1, log |-> acc.log, fault |-> acc.fault,
                  done |-> t.done]
            ELSE [w |-> advance_cursors(w1), log |-> acc.log,
                  fault |-> "none", done |-> t.done + 1]
    ELSE [w |-> advance_cursors(w), log |-> t.log, fault |-> "none",
          done |-> t.done + 1]

\* for _ in 0..ticks_to_process { self.process_single_tick() }: the steps
\* first..(first + n - 1) of the loop, in order (the range is halved so that
\* the evaluation does not nest once per step); a panic ends the loop.
RECURSIVE run_ticks(_, _, _)
run_ticks(t, first, n) ==
    IF n = 0 \/ t.fault # "none"
    THEN t
    ELSE IF n = 1
    THEN process_single_tick(t, first)
    ELSE LET half == n \div 2 IN
         run_ticks(run_ticks(t, first, half), first + half, n - half)

\* A tick that rounds the elapsed time up to whole ticks.
tick_rounds_up(w, now) ==
    LET elapsed == now - w.last_tick
        ticks_to_process == (elapsed + MS_TICK - 1) \div MS_TICK
        t == run_ticks([w |-> w, log |-> <<>>, fault |-> "none", done |-> 0],
                       1, ticks_to_process)
    IN IF t.fault # "none"
       THEN t
       ELSE [t EXCEPT !.w.last_tick = now]

\* TimeWheel::tick with Instant::now() = now
tick(w, now) ==
    LET elapsed == now - w.last_tick
        ticks_to_process == elapsed \div MS_TICK
        t == run_ticks([w |-> w, log |-> <<>>, fault |-> "none", done |-> 0],
                       1, ticks_to_process)
    IN IF t.fault # "none"
       THEN t
       ELSE [t EXCEPT !.w.last_tick = now]

\* TimeWheel::poll and TimeWheel::drop forward to the storage
poll(w, id, waker) ==
    LET r == storage_poll(w.storage, id, waker) IN
    [wheel |-> [w EXCEPT !.storage = r.storage], poll |-> r.poll,
     fault |-> r.fault]

\* A drop that also clears the occupancy bit of every bucket holding the id.
drop_clears_bits(w, id) ==
    LET r == storage_drop(w.storage, id)
        holds(level, size) ==
            {i \in 0..(size - 1) :
                \E k \in 1..Len(level[i]) : level[i][k] = id}
    IN [wheel |-> [w EXCEPT
                     !.storage = r.storage,
                     !.ms_occupied = @ \ holds(w.ms_level, MS_BUCKETS),
                     !.s_occupied = @ \ holds(w.s_level, S_BUCKETS),
                     !.h_occupied = @ \ holds(w.h_level, H_BUCKETS)],
        fault |-> r.fault]

drop(w, id) ==
    LET r == storage_drop(w.storage, id) IN
    [wheel |-> [w EXCEPT !.storage = r.storage], fault |-> r.fault]

\* Option<Duration>
None == [some |-> FALSE, ms |-> 0]
Some(ms) == [some |-> TRUE, ms |-> ms]

\* offsets i of lo..hi at which `bits` has (cursor + i) % size set
OccupiedOffsets(bits, cursor, size) ==
    {i \in 0..(size - 1) : Bitset_is_set(bits, (cursor + i) % size)}

SetMin(S) == CHOOSE x \in S : \A y \in S : x <= y

\* A next_deadline that leaves the rest of the tick frame out of the coarse
\* and coarsest answers.
next_deadline_without_frame_rest(w) ==
    LET ms_off == OccupiedOffsets(w.ms_occupied, w.current_ms_idx, MS_BUCKETS)
        s_off == OccupiedOffsets(w.s_occupied, w.current_s_idx, S_BUCKETS)
        h_off == OccupiedOffsets(w.h_occupied, w.current_h_idx, H_BUCKETS)
    IN
    IF ms_off # {}
    THEN LET i == SetMin(ms_off) IN
         IF i = 0 THEN None ELSE Some(i * MS_TICK)
    ELSE IF s_off # {}
    THEN LET i == SetMin(s_off) IN
         Some(i * MS_PER_SECOND)
    ELSE IF h_off # {}
    THEN LET i == SetMin(h_off)
             s_remaining == (S_BUCKETS - w.current_s_idx - 1) * MS_PER_SECOND
         IN Some(s_remaining + i * MS_PER_HOUR)
    ELSE None

\* TimeWheel::next_deadline
next_deadline(w) ==
    LET ms_off == OccupiedOffsets(w.ms_occupied, w.current_ms_idx, MS_BUCKETS)
        s_off == OccupiedOffsets(w.s_occupied, w.current_s_idx, S_BUCKETS)
        h_off == OccupiedOffsets(w.h_occupied, w.current_h_idx, H_BUCKETS)
        ms_remaining == (MS_BUCKETS - w.current_ms_idx) * MS_TICK
    IN
    IF ms_off # {}
    THEN LET i == SetMin(ms_off) IN
         IF i = 0 THEN None ELSE Some(i * MS_TICK)
    ELSE IF s_off # {}
    THEN LET i == SetMin(s_off) IN
         Some(ms_remaining + i * MS_PER_SECOND)
    ELSE IF h_off # {}
    THEN LET i == SetMin(h_off)
             s_remaining == (S_BUCKETS - w.current_s_idx - 1) * MS_PER_SECOND
         IN Some(ms_remaining + s_remaining + i * MS_PER_HOUR)
    ELSE None

\* ------------------------------------------------------------ history
\* timer ids a caller may pass to poll and drop
Ids == 0..(MaxRegs - 1)

\* the tag of slot id: "Vacant" also for a key the slab never handed out
SlotTag(w, id) ==
    IF slab_contains(w.storage, id) THEN slab_get(w.storage, id).tag
    ELSE "Vacant"

\* registration r holds its slot and waits: not fired, not cancelled
IsWaiting(w, own, rs, r) ==
    /\ own[rs[r].id] = r
    /\ SlotTag(w, rs[r].id) = "Waiting"

\* the entries of a tick's log that notified the waker of registration r
NotifiedAt(log, own, r) ==
    {i \in 1..Len(log) : own[log[i].id] = r}

\* the registrations after a tick() call that ran `t` from wheel w: a
\* registration notified in the call records the number of steps
\* since it was made, the notifying step included; one that still waits
\* adds the steps the call completed
RegsAfterTick(w, own, rs, t) ==
    [r \in 1..Len(rs) |->
        LET hits == NotifiedAt(t.log, own, r) IN
        IF hits # {}
        THEN [rs[r] EXCEPT !.fired = @ + Cardinality(hits),
                           !.firedAt = rs[r].steps + t.log[SetMin(hits)].step]
        ELSE IF IsWaiting(w, own, rs, r)
        THEN [rs[r] EXCEPT !.steps = @ + t.done]
        ELSE rs[r]]

CountAfterTick(cnt, log) ==
    [wk \in Wakers |->
        cnt[wk] + Cardinality({i \in 1..Len(log) : log[i].waker = wk})]

\* the last call: the operation, the id passed (poll, drop) or returned
\* (init_timer), the result, and for tick the steps that ran to their end
\* and the number of wakers notified
Ret(op, id, val, steps, woken) ==
    [op |-> op, id |-> id, val |-> val, steps |-> steps, woken |-> woken]

\* init_timer returned id at least once: a caller holds it
HandedOut(id) == owner[id] # 0

\* ------------------------------------------------------------ actions
Init ==
    /\ \E warm \in WarmUps : wheel = tick(TimeWheel_new(0 - warm), 0).w
    /\ regs = <<>>
    /\ owner = [id \in Ids |-> 0]
    /\ ret = Ret("new", 0, "Ok", 0, 0)
    /\ fault = "none"
    /\ count = [wk \in Wakers |-> 0]
    /\ ticks = 0

\* wheel.init_timer(Duration::from_millis(d), &waker)
Register(d, wk) ==
    /\ fault = "none"
    /\ Len(regs) < MaxRegs
    /\ LET r == init_timer(wheel, Duration_from_millis(d), wk) IN
       /\ wheel' = r.wheel
       /\ ret' = Ret("init_timer", r.id,
                      IF r.ok THEN "Ok" ELSE "DurationTooLong", 0, 0)
       /\ regs' = IF r.ok
                  THEN Append(regs, [id |-> r.id, dur |-> d, steps |-> 0,
                                     fired |-> 0, firedAt |-> 0,
                                     dropped |-> FALSE])
                  ELSE regs
       /\ owner' = IF r.ok THEN [owner EXCEPT ![r.id] = Len(regs) + 1]
                   ELSE owner
    /\ UNCHANGED <<fault, count, ticks>>

\* wheel.init_timer(duration, &waker) with a duration of h * 2^64 + d ms,
\* h >= 1: Duration::new(secs, nanos) reaches every such length below
\* 1000 * 2^64 ms.  The registration is recorded with the duration the
\* caller asked for, in its two parts.
RegisterWrapped(h, d, wk) ==
    /\ fault = "none"
    /\ Len(regs) < MaxRegs
    /\ LET r == init_timer(wheel, [wraps |-> h, ms |-> d], wk) IN
       /\ wheel' = r.wheel
       /\ ret' = Ret("init_timer", r.id,
                      IF r.ok THEN "Ok" ELSE "DurationTooLong", 0, 0)
       /\ regs' = IF r.ok
                  THEN Append(regs, [id |-> r.id, dur |-> d, wraps |-> h,
                                     steps |-> 0, fired |-> 0,
                                     firedAt |-> 0, dropped |-> FALSE])
                  ELSE regs
       /\ owner' = IF r.ok THEN [owner EXCEPT ![r.id] = Len(regs) + 1]
                   ELSE owner
    /\ UNCHANGED <<fault, count, ticks>>

\* wheel.tick(), called gap ms after the previous call
Tick(gap) ==
    /\ fault = "none"
    /\ ticks < MaxTicks
    /\ ticks' = ticks + 1
    /\ LET t == tick(wheel, wheel.last_tick + gap) IN
       /\ wheel' = t.w
       /\ fault' = t.fault
       /\ regs' = RegsAfterTick(wheel, owner, regs, t)
       /\ count' = CountAfterTick(count, t.log)
       /\ ret' = Ret("tick", 0, IF t.fault = "none" THEN "Ok" ELSE "Panic",
                      t.done, Len(t.log))
    /\ UNCHANGED owner

\* wheel.poll(id, &waker)
Poll(id, wk) ==
    /\ fault = "none"
    /\ HandedOut(id)
    /\ LET r == poll(wheel, id, wk) IN
       /\ wheel' = r.wheel
       /\ fault' = r.fault
       /\ ret' = Ret("poll", id, r.poll, 0, 0)
    /\ UNCHANGED <<regs, owner, count, ticks>>

\* wheel.drop(id)
Drop(id) ==
    /\ fault = "none"
    /\ HandedOut(id)
    /\ LET r == drop(wheel, id) IN
       /\ wheel' = r.wheel
       /\ fault' = r.fault
       /\ ret' = Ret("drop", id, IF r.fault = "none" THEN "Ok" ELSE "Panic",
                      0, 0)
       /\ regs' = [k \in 1..Len(regs) |->
                     IF IsWaiting(wheel, owner, regs, k) /\ regs[k].id = id
                     THEN [regs[k] EXCEPT !.dropped = TRUE]
                     ELSE regs[k]]
    /\ UNCHANGED <<owner, count, ticks>>

Next ==
    \/ \E d \in Durations, wk \in Wakers : Register(d, wk)
    \/ \E gap \in Gaps : Tick(gap)
    \/ \E id \in Ids, wk \in Wakers : Poll(id, wk)
    \/ \E id \in Ids : Drop(id)

Spec == Init /\ [][Next]_vars

\* The callers that register with one continuation and poll with any: every
\* init_timer call passes FirstWaker, so a notification of another waker
\* went to a continuation that a poll installed.
FirstWaker == SetMin(Wakers)

NextPolled ==
    \/ \E d \in Durations : Register(d, FirstWaker)
    \/ \E gap \in Gaps : Tick(gap)
    \/ \E id \in Ids, wk \in Wakers : Poll(id, wk)
    \/ \E id \in Ids : Drop(id)

SpecPolled == Init /\ [][NextPolled]_vars

\* Registrations alone, over more durations and cursor positions: the ends
\* of the three levels' ranges, whole seconds and hours, the last accepted
\* duration (24 h - 1 ms) and two rejected ones.
Requests ==
    {0, 10, 99, 100, 999, 1000, 59999, 60000, 3600000, 7200000,
     MAX_DURATION_HOURS * MS_PER_HOUR - 1, MAX_DURATION_HOURS * MS_PER_HOUR,
     (MAX_DURATION_HOURS + 1) * MS_PER_HOUR}

\* ms between TimeWheel::new() and the tick() call at instant 0 that brings
\* the cursors (tick, coarse, coarsest) to (0,0,0), (5,0,0), (9,0,0),
\* (0,3,0), (9,59,0), (0,0,1) and (9,59,23)
LongWarmUps == {0, 50, 90, 300, 5990, 6000, 143990}

InitRegister ==
    /\ \E warm \in LongWarmUps : wheel = tick(TimeWheel_new(0 - warm), 0).w
    /\ regs = <<>>
    /\ owner = [id \in Ids |-> 0]
    /\ ret = Ret("new", 0, "Ok", 0, 0)
    /\ fault = "none"
    /\ count = [wk \in Wakers |-> 0]
    /\ ticks = 0

NextRegister == \E d \in Requests : Register(d, FirstWaker)

SpecRegister == InitRegister /\ [][NextRegister]_vars

\* Registrations alone, with the durations of Requests and with durations
\* that do not fit the u64 of init_timer: MaxWraps bounds the multiples of
\* 2^64 ms that are added to a request.
Wraps == 1..MaxWraps

NextWrapped ==
    \/ \E d \in Requests : Register(d, FirstWaker)
    \/ \E h \in Wraps, d \in Requests : RegisterWrapped(h, d, FirstWaker)

SpecWrapped == InitRegister /\ [][NextWrapped]_vars

\* A driver that calls tick() with a fixed period shorter than MS_TICK, for
\* ever.  tick() reads the clock only as now - last_tick, so instants are
\* counted from the latest call (last_tick stays 0), and `ticks` counts the
\* calls modulo 2: the state space is finite although the calls never end.
ShortPeriod == SetMin(Gaps)

TickPeriodic ==
    /\ fault = "none"
    /\ ticks' = (ticks + 1) % 2
    /\ LET t == tick(wheel, wheel.last_tick + ShortPeriod) IN
       /\ wheel' = [t.w EXCEPT !.last_tick = wheel.last_tick]
       /\ fault' = t.fault
       /\ regs' = RegsAfterTick(wheel, owner, regs, t)
       /\ count' = CountAfterTick(count, t.log)
       /\ ret' = Ret("tick", 0, IF t.fault = "none" THEN "Ok" ELSE "Panic",
                      t.done, Len(t.log))
    /\ UNCHANGED owner

NextPeriodic ==
    \/ \E d \in Durations, wk \in Wakers : Register(d, wk)
    \/ TickPeriodic

\* Registrations and tick() calls only (no poll, no drop), over the
\* durations of Requests: 10 ms and 100 ms registered with the tick cursor
\* at 9 meet in tick bucket 0, one placed there and one cascaded into it.
NextDriven ==
    \/ \E d \in Requests : Register(d, FirstWaker)
    \/ \E gap \in Gaps : Tick(gap)

SpecDriven == Init /\ [][NextDriven]_vars

\* the driver never stops calling tick()
SpecPeriodic == Init /\ [][NextPeriodic]_vars /\ WF_vars(TickPeriodic)

\* ------------------------------------------------------------ observers
\* the places <<bucket, position>> of one level at which id is stored
PlacesIn(level, size, id) ==
    UNION {{<<i, k>> : k \in {n \in 1..Len(level[i]) : level[i][n] = id}} :
           i \in 0..(size - 1)}

\* how often id occurs in the buckets of the three levels
BucketCount(w, id) ==
    Cardinality(PlacesIn(w.ms_level, MS_BUCKETS, id))
    + Cardinality(PlacesIn(w.s_level, S_BUCKETS, id))
    + Cardinality(PlacesIn(w.h_level, H_BUCKETS, id))

Registrations == 1..Len(regs)

\* poll or drop was called on an id whose slot had been reclaimed
Misused == fault # "none" /\ ret.op \in {"poll", "drop"}

\* the time registration r has left, in ms: its duration minus MS_TICK per
\* tick step processed since it was made
Remaining(r) == regs[r].dur - MS_TICK * regs[r].steps

\* ------------------------------------------------------------ claims

\* C1 (no fire after cancel): a registration whose slot was dropped while
\* Waiting is never notified, whatever tick, poll, drop and init_timer calls
\* follow.
C1_NoFireAfterCancel ==
    \A r \in Registrations : regs[r].dropped => regs[r].fired = 0

\* C1 witness: a timer was dropped while Waiting, a later tick() drained its
\* bucket and reclaimed the slot, and no waker was notified for it.
C1_Witness ==
    \E r \in Registrations :
        /\ regs[r].dropped
        /\ regs[r].fired = 0
        /\ owner[regs[r].id] = r
        /\ BucketCount(wheel, regs[r].id) = 0
        /\ SlotTag(wheel, regs[r].id) = "Vacant"
        /\ ret.op = "tick"
        /\ fault = "none"

\* C2 (at-most-once fire): every registration is notified at most once, and
\* a slot in state Done belongs to a registration notified exactly once.
C2_AtMostOnceFire ==
    /\ \A r \in Registrations : regs[r].fired <= 1
    /\ \A id \in Ids :
          SlotTag(wheel, id) = "Done" => regs[owner[id]].fired = 1

\* C2 witness: a timer fired in an earlier tick() call, its slot is still
\* Done, and a later tick() call ran steps without notifying anyone.
C2_Witness ==
    \E id \in Ids :
        /\ SlotTag(wheel, id) = "Done"
        /\ regs[owner[id]].fired = 1
        /\ ret.op = "tick"
        /\ ret.steps >= 1
        /\ ret.woken = 0

\* C3 (uniqueness), as claimed: while poll and drop are used only on ids not
\* yet reclaimed, no id occurs more than once in the buckets of the three
\* levels.
C3_Uniqueness ==
    ~Misused => \A id \in Ids : BucketCount(wheel, id) <= 1

\* C4 (bucket ids are live), as claimed: every id stored in a bucket refers
\* to an allocated slot.
C4_BucketIdsLive ==
    \A id \in Ids :
        BucketCount(wheel, id) >= 1 => SlotTag(wheel, id) # "Vacant"

\* C5 (no fault), as claimed: while poll and drop are used only on ids not
\* yet reclaimed, no call panics; in particular tick() never does.
C5_NoFault ==
    ~Misused => fault = "none"

\* C6 (monotone deadline), as claimed: when next_deadline() is Some(d), d does
\* not exceed the remaining time of any registration that still waits.
C6_MonotoneDeadline ==
    LET d == next_deadline(wheel) IN
    (fault = "none" /\ d.some) =>
        \A r \in Registrations :
            IsWaiting(wheel, owner, regs, r) => d.ms <= Remaining(r)

\* C7 (firing bound), as claimed: a registration of duration D that was not
\* dropped has been notified once floor(D / 10 ms) tick steps have been
\* processed after it was made.
C7_FiringBoundClaimed ==
    \A r \in Registrations :
        (~regs[r].dropped /\ regs[r].steps >= regs[r].dur \div MS_TICK)
            => regs[r].fired >= 1

\* C7, amended: a registration of duration D that was not dropped has been
\* notified once floor(D / 10 ms) + 1 tick steps have been processed after it
\* was made: it waits for at most floor(D / 10 ms) completed steps, and the
\* step that notifies it is at most the (floor(D / 10 ms) + 1)-th.
C7_FiringBound ==
    \A r \in Registrations :
        /\ (~regs[r].dropped /\ regs[r].steps >= regs[r].dur \div MS_TICK + 1)
              => regs[r].fired >= 1
        /\ (~regs[r].dropped /\ IsWaiting(wheel, owner, regs, r))
              => regs[r].steps <= regs[r].dur \div MS_TICK
        /\ (~regs[r].dropped /\ ~IsWaiting(wheel, owner, regs, r))
              => (regs[r].fired >= 1
                  /\ regs[r].firedAt <= regs[r].dur \div MS_TICK + 1)

\* C7 witness: the bound is met exactly: a coarse-level timer is notified by
\* the (floor(D / 10 ms) + 1)-th step after its registration.
C7_Witness ==
    \E r \in Registrations :
        /\ ~regs[r].dropped
        /\ regs[r].dur >= MS_BUCKETS * MS_TICK
        /\ regs[r].fired = 1
        /\ regs[r].firedAt = regs[r].dur \div MS_TICK + 1

\* C8 (no early fire), as claimed: a registration of duration D is not
\* notified before floor(D / 10 ms) tick steps have been processed since it
\* was made (the notifying step counted).
C8_NoEarlyFire ==
    \A r \in Registrations :
        regs[r].fired >= 1 => regs[r].firedAt >= regs[r].dur \div MS_TICK

\* C9 (poll after fire): poll(id, _) on a slot in state Done returns Ready and
\* reclaims the slot; poll(id, _) on a slot in state Waiting returns Pending
\* and keeps the slot allocated and Waiting.
C9_PollAfterFire ==
    [][\A id \in Ids :
          (ret'.op = "poll" /\ ret'.id = id) =>
              /\ SlotTag(wheel, id) = "Done" =>
                    (ret'.val = "Ready" /\ SlotTag(wheel', id) = "Vacant")
              /\ SlotTag(wheel, id) = "Waiting" =>
                    (ret'.val = "Pending" /\ SlotTag(wheel', id) = "Waiting")
      ]_vars

\* C9 witness: a tick has notified a timer's waker, and the poll that
\* followed returned Ready and reclaimed its slot.
C9_Witness ==
    /\ ret.op = "poll"
    /\ ret.val = "Ready"
    /\ owner[ret.id] # 0
    /\ regs[owner[ret.id]].fired = 1
    /\ SlotTag(wheel, ret.id) = "Vacant"

\* C10 (poll after cancel), as claimed: after drop(id) on a Waiting timer the
\* first poll(id, _) returns Ready, right after the drop (slot Cancelled) as
\* well as after a tick has drained the timer's bucket (id in no bucket).
C10_PollAfterCancel ==
    [][\A id \in Ids :
          (/\ ret'.op = "poll"
           /\ ret'.id = id
           /\ owner[id] # 0
           /\ regs[owner[id]].dropped
           /\ (SlotTag(wheel, id) = "Cancelled"
               \/ BucketCount(wheel, id) = 0))
          => ret'.val = "Ready"
      ]_vars

\* C11 (waker update): poll(id, w) on a Waiting timer leaves the slot Waiting
\* with w stored (a replacement when w differs from the stored waker, no
\* change when it is the same) and touches no other slot; a tick() call
\* notifies, for each timer it fires, the waker stored at that moment, i.e.
\* the most recently installed one, and no other waker.
C11_WakerUpdate ==
    [][/\ \A id \in Ids, wk \in Wakers :
             (Poll(id, wk) /\ SlotTag(wheel, id) = "Waiting") =>
                 /\ ret'.val = "Pending"
                 /\ wheel'.storage = slab_set(wheel.storage, id, Waiting(wk))
       /\ ret'.op = "tick" =>
             \A wk \in Wakers :
                 count'[wk] - count[wk] =
                     Cardinality({r \in Registrations :
                         /\ regs'[r].fired > regs[r].fired
                         /\ slab_get(wheel.storage, regs[r].id).waker = wk})
      ]_vars

\* C11 witness: the only timer was registered with FirstWaker, a poll
\* installed another waker, and the tick that fired the timer notified that
\* other waker once and FirstWaker not at all.
C11_Witness ==
    /\ Len(regs) = 1
    /\ regs[1].fired = 1
    /\ ret.op = "tick"
    /\ count[FirstWaker] = 0
    /\ \E wk \in Wakers \ {FirstWaker} : count[wk] = 1

\* C12 (duration rejection): init_timer with a duration of 24 h or more
\* returns DurationTooLong and leaves the whole wheel (slots, buckets,
\* occupancy bits, cursors) as it was; with any duration below 24 h it
\* returns an id whose slot was free and is now Waiting, stored in one more
\* bucket place than before.  A duration of h * 2^64 + d ms with h >= 1 is
\* longer than 24 h whatever d is.
C12_DurationRejection ==
    [][/\ \A d \in Requests :
            Register(d, FirstWaker) =>
              /\ d >= MAX_DURATION_HOURS * MS_PER_HOUR =>
                    (ret'.val = "DurationTooLong" /\ wheel' = wheel
                     /\ regs' = regs)
              /\ d < MAX_DURATION_HOURS * MS_PER_HOUR =>
                    /\ ret'.val = "Ok"
                    /\ SlotTag(wheel, ret'.id) = "Vacant"
                    /\ SlotTag(wheel', ret'.id) = "Waiting"
                    /\ BucketCount(wheel', ret'.id)
                          = BucketCount(wheel, ret'.id) + 1
       /\ \A h \in Wraps, d \in Requests :
            RegisterWrapped(h, d, FirstWaker) =>
              (ret'.val = "DurationTooLong" /\ wheel' = wheel
               /\ regs' = regs)
      ]_vars

\* C13 (idempotent drop): drop(id) on a slot in state Cancelled does not
\* fault and changes nothing: slots, buckets, occupancy bits, cursors and
\* the notifications made stay as they are, so a run of drop(id) calls has
\* the effect of its first call.
C13_IdempotentDrop ==
    [][\A id \in Ids :
          (Drop(id) /\ SlotTag(wheel, id) = "Cancelled") =>
              /\ fault' = "none"
              /\ ret'.val = "Ok"
              /\ wheel' = wheel
              /\ regs' = regs
              /\ count' = count
              /\ drop(wheel', id).wheel = wheel'
      ]_vars

\* C13 witness: drop(id) has returned and the slot is Cancelled with its id
\* still in a bucket: the state a repeated drop(id) starts from and ends in.
C13_Witness ==
    /\ ret.op = "drop"
    /\ ret.val = "Ok"
    /\ SlotTag(wheel, ret.id) = "Cancelled"
    /\ BucketCount(wheel, ret.id) = 1
    /\ owner[ret.id] # 0
    /\ regs[owner[ret.id]].dropped
    /\ Len(regs) = 2

\* C14 (progress under any periodic driver), as claimed: with tick() called
\* for ever at a fixed positive period, here one shorter than 10 ms, every
\* registered timer (none is dropped) is eventually notified.
C14_Progress ==
    \A r \in 1..MaxRegs :
        (Len(regs) >= r) ~> (Len(regs) >= r /\ regs[r].fired >= 1)

\* C15 (next_deadline follows the specified scan), as claimed: the nearest
\* occupied tick bucket at an offset i > 0 gives i x 10 ms; an occupied
\* bucket at the tick cursor is skipped and the scan goes on with the other
\* tick offsets, then the coarse level, then the coarsest level; the answer
\* is None only if no bucket but the one at the tick cursor is occupied.
C15_DeadlineScan ==
    LET ms_off == OccupiedOffsets(wheel.ms_occupied, wheel.current_ms_idx,
                                  MS_BUCKETS) \ {0}
        s_off == OccupiedOffsets(wheel.s_occupied, wheel.current_s_idx,
                                 S_BUCKETS)
        h_off == OccupiedOffsets(wheel.h_occupied, wheel.current_h_idx,
                                 H_BUCKETS)
        ms_remaining == (MS_BUCKETS - wheel.current_ms_idx) * MS_TICK
        s_remaining == (S_BUCKETS - wheel.current_s_idx - 1) * MS_PER_SECOND
    IN next_deadline(wheel) =
         IF ms_off # {} THEN Some(SetMin(ms_off) * MS_TICK)
         ELSE IF s_off # {}
         THEN Some(ms_remaining + SetMin(s_off) * MS_PER_SECOND)
         ELSE IF h_off # {}
         THEN Some(ms_remaining + s_remaining + SetMin(h_off) * MS_PER_HOUR)
         ELSE None

\* C16 (level lower bound of next_deadline), as claimed: right after the
\* registration of the only timer of the wheel, next_deadline() is at least
\* 100 ms if the timer went to the coarse level (100 ms <= D < 60 s) and at
\* least 60 s if it went to the coarsest level (D >= 60 s), wherever the
\* cursors are.
C16_LevelLowerBoundClaimed ==
    (Len(regs) = 1 /\ ret.op = "init_timer" /\ ret.val = "Ok") =>
        LET d == regs[1].dur
            nd == next_deadline(wheel)
        IN /\ (MS_BUCKETS * MS_TICK <= d /\ d < S_BUCKETS * MS_PER_SECOND)
                 => (nd.some /\ nd.ms >= MS_BUCKETS * MS_TICK)
           /\ d >= S_BUCKETS * MS_PER_SECOND
                 => (nd.some /\ nd.ms >= S_BUCKETS * MS_PER_SECOND)

\* C16, amended: right after the registration of the only timer of the
\* wheel, next_deadline() is, for a coarse-level timer, the rest of the tick
\* frame plus floor(D / 1 s) seconds: at least 10 ms, and at least 100 ms
\* when the tick cursor is 0 or D >= 1 s; for a coarsest-level timer it is
\* the rest of the tick frame plus (59 - coarse cursor) seconds plus
\* floor(D / 1 h) hours: at least 60 s when D >= 1 h, below 60 s when
\* D < 1 h.
C16_LevelLowerBound ==
    (Len(regs) = 1 /\ ret.op = "init_timer" /\ ret.val = "Ok") =>
        LET d == regs[1].dur
            nd == next_deadline(wheel)
            ms_remaining == (MS_BUCKETS - wheel.current_ms_idx) * MS_TICK
            s_remaining ==
                (S_BUCKETS - wheel.current_s_idx - 1) * MS_PER_SECOND
        IN /\ (MS_BUCKETS * MS_TICK <= d /\ d < S_BUCKETS * MS_PER_SECOND)
                 => /\ nd = Some(ms_remaining
                                 + (d \div MS_PER_SECOND) * MS_PER_SECOND)
                    /\ nd.ms >= MS_TICK
                    /\ (wheel.current_ms_idx = 0 \/ d >= MS_PER_SECOND)
                          => nd.ms >= MS_BUCKETS * MS_TICK
           /\ d >= S_BUCKETS * MS_PER_SECOND
                 => /\ nd = Some(ms_remaining + s_remaining
                                 + (d \div MS_PER_HOUR) * MS_PER_HOUR)
                    /\ d >= MS_PER_HOUR
                          => nd.ms >= S_BUCKETS * MS_PER_SECOND
                    /\ d < MS_PER_HOUR
                          => nd.ms < S_BUCKETS * MS_PER_SECOND

\* C16 witness: the only timer, of 100 ms or more, was registered with the
\* tick cursor at 9 and went to the coarse level; next_deadline() is 10 ms.
C16_Witness ==
    /\ Len(regs) = 1
    /\ ret.op = "init_timer"
    /\ ret.val = "Ok"
    /\ regs[1].dur >= MS_BUCKETS * MS_TICK
    /\ wheel.s_occupied # {}
    /\ wheel.current_ms_idx = MS_BUCKETS - 1
    /\ next_deadline(wheel) = Some(MS_TICK)

\* C17 (reclamation exactly once), as claimed: when an operation reclaims a
\* slot (poll on Done or Cancelled, drop on Done, the drain of a Cancelled
\* timer), the registration is finished: its id is left in no bucket, and no
\* later tick() drains an id whose slot is reclaimed.
C17_ReclaimedOnce ==
    [][/\ \A id \in Ids :
             (SlotTag(wheel, id) # "Vacant" /\ SlotTag(wheel', id) = "Vacant")
                 => BucketCount(wheel', id) = 0
       /\ ret'.op = "tick" => fault' # "unwrap_none"
      ]_vars

\* C18 (id allocation): a successful init_timer returns an id whose slot was
\* not allocated and is Waiting afterwards; as long as every registration
\* made so far still holds its slot (nothing was reclaimed), the ids are
\* 0, 1, 2, ... in the order of the registrations.
C18_IdAllocation ==
    [][Len(regs') = Len(regs) + 1 =>
          LET id == regs'[Len(regs')].id IN
          /\ ret'.op = "init_timer"
          /\ ret'.id = id
          /\ SlotTag(wheel, id) = "Vacant"
          /\ SlotTag(wheel', id) = "Waiting"
          /\ (\A r \in Registrations :
                  /\ owner[regs[r].id] = r
                  /\ SlotTag(wheel, regs[r].id) # "Vacant")
                => id = Len(regs)
      ]_vars

\* C18 witness: two registrations, none reclaimed, hold the ids 0 and 1 in
\* this order, the second just returned by init_timer.
C18_Witness ==
    /\ ret.op = "init_timer"
    /\ ret.val = "Ok"
    /\ Len(regs) = 2
    /\ regs[1].id = 0
    /\ regs[2].id = 1
    /\ ret.id = 1
    /\ SlotTag(wheel, 0) # "Vacant"
    /\ SlotTag(wheel, 1) = "Waiting"

\* C19 (wake never meets Done), as claimed: no bucket entry drained by
\* tick() finds its slot in state Done, so the unreachable!() arm of
\* TimerStorage::wake is never taken.
C19_WakeNeverOnDone ==
    fault # "unreachable"

\* C20 (cascade correctness), as claimed: a timer that a coarse cascade has
\* moved to the tick level (it was registered with 100 ms or more and waits
\* in a tick bucket) has between 0 and 100 ms left, and a timer that a
\* coarsest cascade has moved to the coarse level (registered with 60 s or
\* more, waiting in a coarse bucket) has less than 60 s left.  The time left
\* only shrinks after the cascade, so the bounds hold from the cascade on.
C20_CascadeCorrectness ==
    \A r \in Registrations :
        (IsWaiting(wheel, owner, regs, r)
         /\ BucketCount(wheel, regs[r].id) = 1) =>
            /\ (/\ regs[r].dur >= MS_BUCKETS * MS_TICK
                /\ PlacesIn(wheel.ms_level, MS_BUCKETS, regs[r].id) # {})
                  => (0 <= Remaining(r)
                      /\ Remaining(r) < MS_BUCKETS * MS_TICK)
            /\ (/\ regs[r].dur >= S_BUCKETS * MS_PER_SECOND
                /\ PlacesIn(wheel.s_level, S_BUCKETS, regs[r].id) # {})
                  => Remaining(r) < S_BUCKETS * MS_PER_SECOND

\* C21 (placement): a successful init_timer(D) appends the new id to one
\* bucket and sets that bucket's occupancy bit, and changes nothing else but
\* the new slot: the tick bucket (tick cursor + floor(D / 10)) mod 10 if
\* D < 100 ms, the coarse bucket (coarse cursor + floor(D / 1000)) mod 60 if
\* 100 ms <= D < 60 s, the coarsest bucket (coarsest cursor +
\* floor(D / 3 600 000)) mod 24 otherwise; the offsets are below the sizes
\* of their levels, so the clamp min(_, size - 1) changes none.
C21_Placement ==
    [][\A d \in Requests :
          (Register(d, FirstWaker) /\ d < MAX_DURATION_HOURS * MS_PER_HOUR) =>
              LET id == ret'.id
                  kept == [wheel EXCEPT !.storage = wheel'.storage]
              IN
              IF d < MS_BUCKETS * MS_TICK
              THEN LET idx == (wheel.current_ms_idx + d \div MS_TICK)
                                  % MS_BUCKETS IN
                   /\ d \div MS_TICK < MS_BUCKETS
                   /\ wheel' = [kept EXCEPT
                                  !.ms_level[idx] = Append(@, id),
                                  !.ms_occupied = @ \cup {idx}]
              ELSE IF d < S_BUCKETS * MS_PER_SECOND
              THEN LET idx == (wheel.current_s_idx + d \div MS_PER_SECOND)
                                  % S_BUCKETS IN
                   /\ d \div MS_PER_SECOND < S_BUCKETS
                   /\ wheel' = [kept EXCEPT
                                  !.s_level[idx] = Append(@, id),
                                  !.s_occupied = @ \cup {idx}]
              ELSE LET idx == (wheel.current_h_idx + d \div MS_PER_HOUR)
                                  % H_BUCKETS IN
                   /\ d \div MS_PER_HOUR < H_BUCKETS
                   /\ wheel' = [kept EXCEPT
                                  !.h_level[idx] = Append(@, id),
                                  !.h_occupied = @ \cup {idx}]
      ]_vars

\* C21 witness: with the coarsest cursor at 23 a timer of 24 h - 1 ms was
\* registered and went, alone, to the coarsest bucket (23 + 23) mod 24 = 22.
C21_Witness ==
    /\ ret.op = "init_timer"
    /\ ret.val = "Ok"
    /\ regs[Len(regs)].dur = MAX_DURATION_HOURS * MS_PER_HOUR - 1
    /\ wheel.current_h_idx = H_BUCKETS - 1
    /\ wheel.h_level[H_BUCKETS - 2] = <<ret.id>>
    /\ wheel.h_occupied = {H_BUCKETS - 2}
    /\ BucketCount(wheel, ret.id) = 1

\* C22 (batched tick): a tick() call that returns has run
\* floor((now - last_tick) / 10 ms) steps, so the three cursors, read as one
\* counter, have advanced by that number, and has set last_tick to now,
\* dropping the remainder; a call with less than 10 ms elapsed runs no step,
\* notifies no waker and changes nothing but last_tick.
C22_BatchedTick ==
    [][\A gap \in Gaps :
          (Tick(gap) /\ fault' = "none") =>
              LET n == gap \div MS_TICK
                  period == MS_BUCKETS * S_BUCKETS * H_BUCKETS
                  before == wheel.current_ms_idx
                            + MS_BUCKETS * wheel.current_s_idx
                            + MS_BUCKETS * S_BUCKETS * wheel.current_h_idx
                  after == wheel'.current_ms_idx
                           + MS_BUCKETS * wheel'.current_s_idx
                           + MS_BUCKETS * S_BUCKETS * wheel'.current_h_idx
              IN /\ ret'.steps = n
                 /\ after = (before + n) % period
                 /\ wheel'.last_tick = wheel.last_tick + gap
                 /\ gap < MS_TICK =>
                       /\ wheel' = [wheel EXCEPT !.last_tick = @ + gap]
                       /\ count' = count
                       /\ regs' = regs
                       /\ ret'.woken = 0
      ]_vars

\* C22 witness: a tick() call made less than 10 ms after the previous one
\* returned with a Waiting timer in the bucket at the tick cursor: it ran no
\* step, and a call before it ran eleven.
C22_Witness ==
    /\ ret.op = "tick"
    /\ ret.val = "Ok"
    /\ ret.steps = 0
    /\ wheel.last_tick % MS_TICK # 0
    /\ wheel.last_tick > (MS_BUCKETS + 1) * MS_TICK
    /\ \E r \in Registrations :
          /\ IsWaiting(wheel, owner, regs, r)
          /\ PlacesIn(wheel.ms_level, MS_BUCKETS, regs[r].id) # {}
          /\ regs[r].id \in {wheel.ms_level[wheel.current_ms_idx][k] :
                   k \in 1..Len(wheel.ms_level[wheel.current_ms_idx])}

\* C23 (wake order): the wakers notified by one tick() call are notified in
\* ascending step order, and those of one step (one drained tick bucket) in
\* the order in which the bucket stores them: entries that were in the tick
\* bucket before entries cascaded into it from a coarse bucket, those before
\* entries that came down from a coarsest bucket, and entries of one source
\* bucket in their stored order.
C23_WakeOrder ==
    [][\A gap \in Gaps :
          Tick(gap) =>
              LET log == tick(wheel, wheel.last_tick + gap).log
                  level(id) ==
                      IF PlacesIn(wheel.ms_level, MS_BUCKETS, id) # {} THEN 0
                      ELSE IF PlacesIn(wheel.s_level, S_BUCKETS, id) # {}
                      THEN 1 ELSE 2
                  places(id) ==
                      PlacesIn(wheel.ms_level, MS_BUCKETS, id)
                      \cup PlacesIn(wheel.s_level, S_BUCKETS, id)
                      \cup PlacesIn(wheel.h_level, H_BUCKETS, id)
                  pos(id) == (CHOOSE p \in places(id) : TRUE)[2]
              IN /\ Len(log) = ret'.woken
                 /\ \A i, j \in 1..Len(log) :
                       i < j =>
                         \/ log[i].step < log[j].step
                         \/ /\ log[i].step = log[j].step
                            /\ \/ level(log[i].id) < level(log[j].id)
                               \/ /\ level(log[i].id) = level(log[j].id)
                                  /\ pos(log[i].id) < pos(log[j].id)
      ]_vars

\* C23 witness: one tick() call notified two timers in its second step: the
\* first was registered with less than 100 ms and sat in the tick bucket,
\* the second was registered with 100 ms or more and was cascaded into that
\* bucket by the first step.
C23_Witness ==
    /\ ret.op = "tick"
    /\ ret.woken = 2
    /\ ticks = 1
    /\ Len(regs) = 2
    /\ regs[1].dur < MS_BUCKETS * MS_TICK
    /\ regs[2].dur >= MS_BUCKETS * MS_TICK
    /\ regs[1].firedAt = 2
    /\ regs[2].firedAt = 2

\* C24 (frame of drop): a drop(id) that returns changes the state of slot id
\* and of no other slot, and leaves every bucket, every occupancy bit and
\* every cursor as it was, so next_deadline() gives the same answer after
\* the drop as before it.
C24_DropFrame ==
    [][\A id \in Ids :
          (Drop(id) /\ fault' = "none") =>
              /\ wheel' = [wheel EXCEPT !.storage = wheel'.storage]
              /\ Len(wheel'.storage.entries) = Len(wheel.storage.entries)
              /\ \A other \in Ids \ {id} :
                    /\ SlotTag(wheel', other) = SlotTag(wheel, other)
                    /\ SlotTag(wheel, other) = "Waiting" =>
                          slab_get(wheel'.storage, other)
                              = slab_get(wheel.storage, other)
              /\ next_deadline(wheel') = next_deadline(wheel)
      ]_vars

\* C24 witness: the only timer was dropped while Waiting; it is Cancelled,
\* still in its bucket, and next_deadline() still reports that bucket.
C24_Witness ==
    /\ ret.op = "drop"
    /\ Len(regs) = 1
    /\ regs[1].dropped
    /\ SlotTag(wheel, regs[1].id) = "Cancelled"
    /\ BucketCount(wheel, regs[1].id) = 1
    /\ next_deadline(wheel).some

\* C25 (occupancy bits are exact): at each of the three levels the occupancy
\* bit of a bucket is set exactly if the bucket holds an id, so no bit is
\* ever stale, and when all buckets are empty next_deadline() is None.
C25_OccupancyExact ==
    /\ wheel.ms_occupied
          = {i \in 0..(MS_BUCKETS - 1) : wheel.ms_level[i] # <<>>}
    /\ wheel.s_occupied
          = {i \in 0..(S_BUCKETS - 1) : wheel.s_level[i] # <<>>}
    /\ wheel.h_occupied
          = {i \in 0..(H_BUCKETS - 1) : wheel.h_level[i] # <<>>}
    /\ (\A id \in Ids : BucketCount(wheel, id) = 0)
          => next_deadline(wheel) = None

\* C25 witness: two timers were registered, one of them at the coarse or
\* coarsest level, and tick() has fired both: every bucket is empty, no
\* occupancy bit is set and next_deadline() is None.
C25_Witness ==
    /\ ret.op = "tick"
    /\ Len(regs) = 2
    /\ \A r \in Registrations : regs[r].fired = 1
    /\ \E r \in Registrations : regs[r].dur >= MS_BUCKETS * MS_TICK
    /\ \A id \in Ids : BucketCount(wheel, id) = 0
    /\ wheel.ms_occupied = {}
    /\ wheel.s_occupied = {}
    /\ wheel.h_occupied = {}
    /\ next_deadline(wheel) = None

\* C26 (cascades conserve entries): over a tick() call that returns, a
\* timer that waits in a bucket either is notified, and then its id is in
\* no bucket, or is not notified, and then its id is in exactly one bucket:
\* the place it had, or, moved by a cascade, the bucket at cursor 0 of a
\* lower level (the cursor of that level at the time of the cascade).  No
\* id is lost or duplicated on the way down.
C26_CascadeConserves ==
    [][\A gap \in Gaps :
          (Tick(gap) /\ fault' = "none") =>
              \A r \in Registrations :
                  IsWaiting(wheel, owner, regs, r) =>
                      LET id == regs[r].id
                          ms0 == PlacesIn(wheel.ms_level, MS_BUCKETS, id)
                          s0 == PlacesIn(wheel.s_level, S_BUCKETS, id)
                          h0 == PlacesIn(wheel.h_level, H_BUCKETS, id)
                          ms1 == PlacesIn(wheel'.ms_level, MS_BUCKETS, id)
                          s1 == PlacesIn(wheel'.s_level, S_BUCKETS, id)
                          h1 == PlacesIn(wheel'.h_level, H_BUCKETS, id)
                      IN
                      \/ /\ regs'[r].fired = regs[r].fired + 1
                         /\ SlotTag(wheel', id) = "Done"
                         /\ BucketCount(wheel', id) = 0
                      \/ /\ regs'[r].fired = regs[r].fired
                         /\ IsWaiting(wheel', owner', regs', r)
                         /\ BucketCount(wheel, id) = 1
                         /\ BucketCount(wheel', id) = 1
                         /\ \/ (ms1 = ms0 /\ s1 = s0 /\ h1 = h0)
                            \/ /\ ms0 = {}
                               /\ \E k \in 1..MaxRegs : ms1 = {<<0, k>>}
                            \/ /\ h0 # {}
                               /\ \E k \in 1..MaxRegs : s1 = {<<0, k>>}
      ]_vars

\* C26 witness: one tick() call has cascaded a coarse-level timer into tick
\* bucket 0 and a coarsest-level timer into coarse bucket 0; both still
\* wait, each in that one bucket.
C26_Witness ==
    /\ ret.op = "tick"
    /\ ret.val = "Ok"
    /\ Len(regs) = 2
    /\ \E r, q \in Registrations :
          /\ regs[r].dur >= MS_BUCKETS * MS_TICK
          /\ regs[r].dur < S_BUCKETS * MS_PER_SECOND
          /\ regs[q].dur >= S_BUCKETS * MS_PER_SECOND
          /\ regs[r].fired = 0
          /\ regs[q].fired = 0
          /\ wheel.ms_level[0] = <<regs[r].id>>
          /\ wheel.s_level[0] = <<regs[q].id>>
          /\ BucketCount(wheel, regs[r].id) = 1
          /\ BucketCount(wheel, regs[q].id) = 1

====
